---- MODULE Spec2Model ----
(***************************************************************************)
(* Model of Roles.py: the weekly TO rotation generator, its input          *)
(* resolution in main, and its three renderers.                            *)
(*                                                                         *)
(* A datetime is modelled by its proleptic Gregorian ordinal (the time of  *)
(* day is carried unchanged by every timedelta(days=n) addition, so it     *)
(* never decides a comparison between start, current and end).  A string   *)
(* is a sequence of one-character strings, so that strip() and             *)
(* startswith() are computed.                                              *)
(***************************************************************************)
EXTENDS Integers, Sequences, FiniteSets, TLC

\* ---------------------------------------------------------------- bounds
MaxLen == 2      \* longest participant list given to --tos / generate_rotation
MaxLines == 2    \* longest TO_List.txt, in lines
MaxDays == 15    \* largest --days
MaxStart == 6    \* start dates range over Epoch .. Epoch + MaxStart

\* ordinal of 2023-12-25, a Monday: the window then crosses a year end
Epoch == 738879

\* ------------------------------------------------------- input alphabets
\* participant names as typed after --tos: plain, padded, blank, empty
Names == { <<"a">>, <<" ", "b", " ">>, <<" ">>, <<>> }

\* lines of TO_List.txt (without the line terminator, which strip() removes)
Lines == { <<>>, <<" ">>, <<"a", " ">>, <<"-", "-", "-", "x">>, <<" ", "-", "-", "-">> }

RECURSIVE SeqsUpTo(_, _)
SeqsUpTo(S, n) ==
    IF n = 0 THEN { <<>> }
    ELSE LET shorter == SeqsUpTo(S, n - 1)
         IN  shorter \cup { Append(s, x) : s \in shorter, x \in S }

\* ------------------------------------------------------------- str.strip
IsSpace(c) == c = " "

RECURSIVE lstrip(_)
lstrip(s) ==
    IF s # <<>> /\ IsSpace(Head(s)) THEN lstrip(Tail(s)) ELSE s

RECURSIVE rstrip(_)
rstrip(s) ==
    IF s # <<>> /\ IsSpace(s[Len(s)]) THEN rstrip(SubSeq(s, 1, Len(s) - 1)) ELSE s

strip(s) == rstrip(lstrip(s))

startswith(s, prefix) ==
    /\ Len(s) >= Len(prefix)
    /\ SubSeq(s, 1, Len(prefix)) = prefix

\* --------------------------------------------- datetime calendar arithmetic
is_leap(y) == y % 4 = 0 /\ (y % 100 # 0 \/ y % 400 = 0)

DAYS_IN_MONTH == <<31, 28, 31, 30, 31, 30, 31, 31, 30, 31, 30, 31>>

days_in_month(y, m) == IF m = 2 /\ is_leap(y) THEN 29 ELSE DAYS_IN_MONTH[m]

RECURSIVE days_before_month(_, _)
days_before_month(y, m) ==
    IF m = 1 THEN 0 ELSE days_before_month(y, m - 1) + days_in_month(y, m - 1)

days_before_year(y) ==
    LET p == y - 1 IN p * 365 + (p \div 4) - (p \div 100) + (p \div 400)

\* datetime.strptime(date, "%Y-%m-%d"): the ordinal of a year-month-day
strptime(ymd) ==
    days_before_year(ymd.year) + days_before_month(ymd.year, ymd.month) + ymd.day

\* the year, month and day of an ordinal
ord2ymd(ordinal) ==
    LET n0   == ordinal - 1
        n400 == n0 \div 146097
        r400 == n0 % 146097
        n100 == r400 \div 36524
        r100 == r400 % 36524
        n4   == r100 \div 1461
        r4   == r100 % 1461
        n1   == r4 \div 365
        n    == r4 % 365
        year == n400 * 400 + 1 + n100 * 100 + n4 * 4 + n1
    IN  IF n1 = 4 \/ n100 = 4
        THEN [year |-> year - 1, month |-> 12, day |-> 31]
        ELSE LET m == CHOOSE k \in 1..12 :
                          /\ days_before_month(year, k) <= n
                          /\ n < days_before_month(year, k) + days_in_month(year, k)
             IN  [year |-> year, month |-> m, day |-> n - days_before_month(year, m) + 1]

\* current_date.strftime("%Y-%m-%d")
strftime_Ymd(d) == ord2ymd(d)

MONTH_ABBR == <<"Jan", "Feb", "Mar", "Apr", "May", "Jun",
                "Jul", "Aug", "Sep", "Oct", "Nov", "Dec">>

\* datetime.strftime("%b %d"): abbreviated month and day of month, no year
strftime_bd(d) == LET ymd == ord2ymd(d) IN <<MONTH_ABBR[ymd.month], ymd.day>>

\* datetime.weekday(): 0 is Monday
weekday(d) == (d + 6) % 7

\* --------------------------------------------------------------- values
\* start_date is None
None == 0

\* the sentinel "N/A"
NA == <<"N", "/", "A">>

Msg(text) == [kind |-> "msg", text |-> text]

\* strptime accepts a year-month-day only when it names a calendar day
ValidYmd(ymd) ==
    /\ ymd.month \in 1..12
    /\ ymd.day \in 1..days_in_month(ymd.year, ymd.month)

StartOrdinals == Epoch .. (Epoch + MaxStart)

DaysRange == (-1) .. MaxDays

\* values of --start-date: absent, well formed, malformed
StartDateArgs ==
    { [given |-> FALSE, ymd |-> ord2ymd(Epoch)] }
    \cup { [given |-> TRUE, ymd |-> ord2ymd(d)] : d \in StartOrdinals }
    \cup { [given |-> TRUE, ymd |-> [year |-> 2023, month |-> 13, day |-> 1]],
           [given |-> TRUE, ymd |-> [year |-> 2023, month |-> 2, day |-> 29]] }

\* the namespace parse_arguments returns; tos = <<>> stands for None, as
\* nargs="+" never yields an empty list
ArgsSet ==
    [ tos : SeqsUpTo(Names, MaxLen),
      file : BOOLEAN,
      csv : BOOLEAN,
      days : DaysRange,
      start_date : StartDateArgs ]

NoArgs ==
    [ tos |-> <<>>, file |-> FALSE, csv |-> FALSE, days |-> 60,
      start_date |-> [given |-> FALSE, ymd |-> ord2ymd(Epoch)] ]

\* TO_List.txt: absent, or its lines
FileSet ==
    { [exists |-> FALSE, lines |-> <<>>] }
    \cup { [exists |-> TRUE, lines |-> l] : l \in SeqsUpTo(Lines, MaxLines) }

NoFile == [written |-> FALSE, content |-> <<>>]

\* ------------------------------------------------------------- parse_file
RECURSIVE parse_file_lines(_)
parse_file_lines(lines) ==
    IF lines = <<>> THEN <<>>
    ELSE LET line == Head(lines)
             rest == parse_file_lines(Tail(lines))
         IN  IF strip(line) # <<>> /\ ~startswith(line, <<"-", "-", "-">>)
             THEN <<strip(line)>> \o rest
             ELSE rest

\* ------------------------------------------------- generate_rotation parts
StripAll(list) == [i \in 1..Len(list) |-> strip(list[i])]

\* mutant: the names are tested without the strip of line 87
ValidationError_NoStrip(list) ==
    IF list = <<>> THEN "TO list cannot be empty."
    ELSE IF \E i \in 1..Len(list) : list[i] = <<>>
         THEN "TO names cannot be empty strings."
         ELSE ""

\* the ValueError generate_rotation raises for this list, "" when none
ValidationError(list) ==
    IF list = <<>> THEN "TO list cannot be empty."
    ELSE IF \E i \in 1..Len(list) : strip(list[i]) = <<>>
         THEN "TO names cannot be empty strings."
         ELSE ""

\* mutant: the search stops on weekday 3
IsTargetWeekday_Thursday(d) == weekday(d) = 3

IsTargetWeekday(d) == weekday(d) = 2

\* mutant: the loop steps by 6 days
NextWeek_SixDays(d) == d + 6

NextWeek(d) == d + 7

\* mutant: the index is not advanced
NextIndex_NoAdvance(i, n) == i % n

NextIndex(i, n) == (i + 1) % n

\* --------------------------------------------------------------- renderers
RECURSIVE print_to_file_loop(_, _, _)
print_to_file_loop(sched, i, TO_two) ==
    IF i > Len(sched) THEN <<>>
    ELSE LET date == sched[i][1]
             TO_one == sched[i][2]
             formatted_date == strftime_bd(strptime(date))
         IN  << [kind |-> "#", date |-> formatted_date],
                [kind |-> "TO 1", name |-> TO_one],
                [kind |-> "TO 2", name |-> TO_two],
                [kind |-> "blank"] >>
             \o print_to_file_loop(sched, i + 1, TO_one)

\* the content written to TO_Rotation.txt
print_to_file(sched) ==
    LET TO_two == IF Len(sched) > 1 THEN sched[Len(sched)][2] ELSE NA
    IN  print_to_file_loop(sched, 1, TO_two)

RECURSIVE print_to_terminal_loop(_, _, _)
print_to_terminal_loop(sched, i, TO_two) ==
    IF i > Len(sched) THEN <<>>
    ELSE LET date == sched[i][1]
             TO_one == sched[i][2]
             formatted_date == strftime_bd(strptime(date))
         IN  << [kind |-> "#", date |-> formatted_date],
                [kind |-> "TO 1", name |-> TO_one],
                [kind |-> "TO 2", name |-> TO_two],
                [kind |-> "blank"] >>
             \o print_to_terminal_loop(sched, i + 1, TO_one)

\* mutant: the first slot 2 is always the sentinel
print_to_terminal_AlwaysNA(sched) ==
    <<Msg("Printing to terminal...")>> \o print_to_terminal_loop(sched, 1, NA)

\* the lines printed to the terminal
print_to_terminal(sched) ==
    LET TO_two == IF Len(sched) > 1 THEN sched[Len(sched)][2] ELSE NA
    IN  <<Msg("Printing to terminal...")>> \o print_to_terminal_loop(sched, 1, TO_two)

\* mutant: TO_two is not updated after a row
RECURSIVE export_to_csv_loop_Stale(_, _, _)
export_to_csv_loop_Stale(sched, i, TO_two) ==
    IF i > Len(sched) THEN <<>>
    ELSE LET date == sched[i][1]
             TO_one == sched[i][2]
             formatted_date == strftime_bd(strptime(date))
         IN  << [kind |-> "row", date |-> formatted_date, to1 |-> TO_one, to2 |-> TO_two] >>
             \o export_to_csv_loop_Stale(sched, i + 1, TO_two)

RECURSIVE export_to_csv_loop(_, _, _)
export_to_csv_loop(sched, i, TO_two) ==
    IF i > Len(sched) THEN <<>>
    ELSE LET date == sched[i][1]
             TO_one == sched[i][2]
             formatted_date == strftime_bd(strptime(date))
         IN  << [kind |-> "row", date |-> formatted_date, to1 |-> TO_one, to2 |-> TO_two] >>
             \o export_to_csv_loop(sched, i + 1, TO_one)

\* the rows written to TO_Rotation.csv
export_to_csv(sched) ==
    LET TO_two == IF Len(sched) > 1 THEN sched[Len(sched)][2] ELSE NA
    IN  << [kind |-> "header", cells |-> <<"Date", "TO 1", "TO 2">>] >>
        \o export_to_csv_loop(sched, 1, TO_two)

\* mutant: -f is tested before --csv
Sink_FileFirst(a) == IF a.file THEN "file" ELSE IF a.csv THEN "csv" ELSE "terminal"

\* which renderer main calls
Sink(a) == IF a.csv THEN "csv" ELSE IF a.file THEN "file" ELSE "terminal"

\* ------------------------------------------------------------------ state
VARIABLES
    pc,            \* position in main / generate_rotation
    entry,         \* "main" or "generate_rotation": what was invoked
    args,          \* main: the parsed arguments
    tos,           \* the participant list main holds / generate_rotation is given
    num_days,      \* generate_rotation: num_days
    start_date,    \* generate_rotation: start_date (None or an ordinal)
    g_tos,         \* generate_rotation: tos after the strip of line 87
    end_date,      \* generate_rotation: end_date
    current_date,  \* generate_rotation: current_date
    to_index,      \* generate_rotation: to_index
    rotation,      \* generate_rotation: rotation, then main's rotation
    exc,           \* message of the ValueError raised, "" when none
    stdout,        \* lines printed
    txt_file,      \* TO_Rotation.txt
    csv_file,      \* TO_Rotation.csv
    exit_status    \* process exit status, meaningful once pc = "exit"

vars == << pc, entry, args, tos, num_days, start_date, g_tos, end_date,
           current_date, to_index, rotation, exc, stdout, txt_file, csv_file,
           exit_status >>

genLocals == << g_tos, end_date, current_date, to_index, rotation, exc >>
outputs == << stdout, txt_file, csv_file, exit_status >>

Init ==
    /\ pc = "idle"
    /\ entry = "none"
    /\ args = NoArgs
    /\ tos = <<>>
    /\ num_days = 60
    /\ start_date = None
    /\ g_tos = <<>>
    /\ end_date = None
    /\ current_date = None
    /\ to_index = 0
    /\ rotation = <<>>
    /\ exc = ""
    /\ stdout = <<>>
    /\ txt_file = NoFile
    /\ csv_file = NoFile
    /\ exit_status = 0

\* ------------------------------------------------------------------- main
\* lines 167-170: parse the arguments, take --tos
MainArgs ==
    /\ pc = "idle"
    /\ \E a \in ArgsSet :
        /\ args' = a
        /\ tos' = a.tos
        /\ pc' = IF a.tos = <<>> THEN "parse_file" ELSE "start_date"
    /\ entry' = "main"
    /\ UNCHANGED << num_days, start_date, genLocals, outputs >>

\* lines 171-175 with parse_file: no --tos, read TO_List.txt
MainParseFile ==
    /\ pc = "parse_file"
    /\ \E f \in FileSet :
        IF ~f.exists
        THEN /\ stdout' = stdout \o << Msg("Parsing TOs from file..."),
                                       Msg("Error: TO_List.txt not found. Please create the file or use --tos flag.") >>
             /\ exit_status' = 1
             /\ pc' = "exit"
             /\ tos' = tos
        ELSE LET parsed == parse_file_lines(f.lines)
             IN  /\ tos' = parsed
                 /\ exit_status' = exit_status
                 /\ IF parsed = <<>>
                    THEN /\ stdout' = stdout \o << Msg("Parsing TOs from file..."),
                                                   Msg("No TOs found in the file. Exiting.") >>
                         /\ pc' = "exit"
                    ELSE /\ stdout' = Append(stdout, Msg("Parsing TOs from file..."))
                         /\ pc' = "start_date"
    /\ UNCHANGED << entry, args, num_days, start_date, genLocals, txt_file, csv_file >>

\* lines 177-186: parse --start-date and call generate_rotation
MainStartDate ==
    /\ pc = "start_date"
    /\ IF args.start_date.given /\ ~ValidYmd(args.start_date.ymd)
       THEN /\ stdout' = Append(stdout, Msg("Error: Invalid start date format. Please use YYYY-MM-DD format."))
            /\ exit_status' = 1
            /\ pc' = "exit"
            /\ UNCHANGED << num_days, start_date >>
       ELSE /\ start_date' = IF args.start_date.given
                             THEN strptime(args.start_date.ymd)
                             ELSE None
            /\ num_days' = args.days
            /\ pc' = "generate"
            /\ UNCHANGED << stdout, exit_status >>
    /\ UNCHANGED << entry, args, tos, genLocals, txt_file, csv_file >>

\* lines 187-189: the ValueError of generate_rotation is reported
MainExcept ==
    /\ pc = "except"
    /\ stdout' = Append(stdout, [kind |-> "error", text |-> exc])
    /\ exit_status' = 1
    /\ pc' = "exit"
    /\ UNCHANGED << entry, args, tos, num_days, start_date, genLocals, txt_file, csv_file >>

\* lines 191-192
MainExportCsv ==
    /\ pc = "render"
    /\ Sink(args) = "csv"
    /\ stdout' = Append(stdout, Msg("Exporting to TO_Rotation.csv..."))
    /\ csv_file' = [written |-> TRUE, content |-> export_to_csv(rotation)]
    /\ pc' = "rendered"
    /\ UNCHANGED << entry, args, tos, num_days, start_date, genLocals, txt_file, exit_status >>

\* lines 193-194
MainPrintFile ==
    /\ pc = "render"
    /\ Sink(args) = "file"
    /\ stdout' = Append(stdout, Msg("Printing to TO_Rotation.txt..."))
    /\ txt_file' = [written |-> TRUE, content |-> print_to_file(rotation)]
    /\ pc' = "rendered"
    /\ UNCHANGED << entry, args, tos, num_days, start_date, genLocals, csv_file, exit_status >>

\* lines 195-196
MainPrintTerminal ==
    /\ pc = "render"
    /\ Sink(args) = "terminal"
    /\ stdout' = stdout \o print_to_terminal(rotation)
    /\ pc' = "rendered"
    /\ UNCHANGED << entry, args, tos, num_days, start_date, genLocals, txt_file, csv_file, exit_status >>

\* line 198
MainDone ==
    /\ pc = "rendered"
    /\ stdout' = Append(stdout, Msg("Done."))
    /\ pc' = "exit"
    /\ UNCHANGED << entry, args, tos, num_days, start_date, genLocals, txt_file, csv_file, exit_status >>

\* ------------------------------------------------------ generate_rotation
\* a direct call generate_rotation(tos, num_days, start_date)
CallGenerate ==
    /\ pc = "idle"
    /\ entry' = "generate_rotation"
    /\ \E list \in SeqsUpTo(Names, MaxLen), n \in DaysRange, d \in StartOrdinals \cup {None} :
        /\ tos' = list
        /\ num_days' = n
        /\ start_date' = d
    /\ pc' = "generate"
    /\ UNCHANGED << args, genLocals, outputs >>

\* lines 84-97: validation, defaults, end_date
GenValidate ==
    /\ pc = "generate"
    /\ IF ValidationError(tos) # ""
       THEN /\ exc' = ValidationError(tos)
            /\ pc' = IF entry = "main" THEN "except" ELSE "raised"
            /\ UNCHANGED << start_date, g_tos, end_date, current_date, rotation >>
       ELSE /\ g_tos' = StripAll(tos)
            /\ rotation' = <<>>
            /\ \E now \in StartOrdinals :
                 start_date' = IF start_date = None THEN now ELSE start_date
            /\ end_date' = start_date' + num_days
            /\ current_date' = start_date'
            /\ pc' = "seek"
            /\ exc' = exc
    /\ UNCHANGED << entry, args, tos, num_days, to_index, outputs >>

\* lines 98-101: one iteration of the search for the first Wednesday
GenSeek ==
    /\ pc = "seek"
    /\ IF ~IsTargetWeekday(current_date)
       THEN /\ current_date' = current_date + 1
            /\ UNCHANGED << pc, to_index >>
       ELSE /\ to_index' = 0
            /\ pc' = "loop"
            /\ UNCHANGED current_date
    /\ UNCHANGED << entry, args, tos, num_days, start_date, g_tos, end_date,
                    rotation, exc, outputs >>

\* lines 103-106: one iteration of the generation loop
GenLoop ==
    /\ pc = "loop"
    /\ IF current_date < end_date
       THEN /\ rotation' = Append(rotation, << strftime_Ymd(current_date), g_tos[to_index + 1] >>)
            /\ current_date' = NextWeek(current_date)
            /\ to_index' = NextIndex(to_index, Len(g_tos))
            /\ pc' = pc
       ELSE /\ pc' = IF entry = "main" THEN "render" ELSE "returned"
            /\ UNCHANGED << rotation, current_date, to_index >>
    /\ UNCHANGED << entry, args, tos, num_days, start_date, g_tos, end_date, exc, outputs >>

Next ==
    \/ MainArgs
    \/ MainParseFile
    \/ MainStartDate
    \/ MainExcept
    \/ MainExportCsv
    \/ MainPrintFile
    \/ MainPrintTerminal
    \/ MainDone
    \/ CallGenerate
    \/ GenValidate
    \/ GenSeek
    \/ GenLoop

Spec == Init /\ [][Next]_vars

TypeOK ==
    /\ pc \in { "idle", "parse_file", "start_date", "generate", "seek", "loop",
                "except", "raised", "returned", "render", "rendered", "exit" }
    /\ exit_status \in {0, 1}
    /\ to_index \in 0..MaxLen

\* ------------------------------------------------- vocabulary of the claims
\* ordinal 1 (0001-01-01) is a Monday, so Wednesdays are the ordinals 3 mod 7
IsWednesday(d) == d % 7 = 3

\* an entry that is blank once trimmed
IsBlank(name) == \A i \in 1..Len(name) : name[i] = " "

InvalidList(list) == list = <<>> \/ \E i \in 1..Len(list) : IsBlank(list[i])

\* generate_rotation has returned its schedule
Returned == pc \in { "returned", "render", "rendered" }

\* the ordinals of the dates of the schedule
ScheduleDates == [i \in 1..Len(rotation) |-> strptime(rotation[i][1])]

\* the (date, slot 1, slot 2) triples of terminal or text-file lines
TriplesOfLines(lines) ==
    LET body == SelectSeq(lines, LAMBDA l : l.kind \in {"#", "TO 1", "TO 2"})
    IN  [k \in 1..(Len(body) \div 3) |->
            << body[3 * k - 2].date, body[3 * k - 1].name, body[3 * k].name >>]

\* the (date, slot 1, slot 2) triples of CSV rows
TriplesOfRows(rows) ==
    LET body == SelectSeq(rows, LAMBDA r : r.kind = "row")
    IN  [k \in 1..Len(body) |-> << body[k].date, body[k].to1, body[k].to2 >>]

TerminalTriples == TriplesOfLines(stdout)
FileTriples == TriplesOfLines(txt_file.content)
CsvTriples == TriplesOfRows(csv_file.content)

\* the triples of the sink this run rendered to
RenderedTriples ==
    IF csv_file.written THEN CsvTriples
    ELSE IF txt_file.written THEN FileTriples
    ELSE TerminalTriples

Printed(text) == \E i \in 1..Len(stdout) : stdout[i].kind = "msg" /\ stdout[i].text = text

Chained(T) == \A i \in 2..Len(T) : T[i][3] = T[i - 1][2]

C2_WeeklyCadence ==
    LET ds == ScheduleDates
    IN  /\ \A i \in 1..Len(ds) : IsWednesday(ds[i])
        /\ \A i \in 2..Len(ds) : ds[i] - ds[i - 1] = 7
        /\ (pc = "loop" /\ Len(ds) > 0 => current_date - ds[Len(ds)] = 7)

C2_Witness == pc = "loop" /\ Len(rotation) = 3

\* C3: the participant of the i-th assignment (counting from 0) is the trimmed
\* entry P[i mod len(P)].
C3_RoundRobin ==
    Returned =>
        \A i \in 1..Len(rotation) :
            rotation[i][2] = strip(tos[((i - 1) % Len(tos)) + 1])

C3_Witness ==
    /\ Returned
    /\ Len(tos) = 2
    /\ Len(rotation) = 3
    /\ strip(tos[1]) # strip(tos[2])
    /\ tos[2] # strip(tos[2])

\* C4: in each renderer, slot 2 of record i >= 1 is slot 1 of record i-1.
C4_SlotTwoLagsSlotOne ==
    /\ Chained(TerminalTriples)
    /\ Chained(FileTriples)
    /\ Chained(CsvTriples)

C4_Witness ==
    /\ pc = "rendered"
    /\ Len(RenderedTriples) = 3
    /\ RenderedTriples[1][2] # RenderedTriples[2][2]

\* C5 (as claimed): slot 2 of record 0 is "N/A" when the schedule has fewer
\* than 2 records, and otherwise is the last participant of P whenever the
\* schedule has at least len(P) records.
C5_FirstSlotTwoIsLastParticipant ==
    pc = "rendered" /\ Len(rotation) >= 1 =>
        /\ (Len(rotation) < 2 => RenderedTriples[1][3] = NA)
        /\ (Len(rotation) >= 2 /\ Len(rotation) >= Len(tos) =>
                RenderedTriples[1][3] = strip(tos[Len(tos)]))

\* C6: generate_rotation raises ValueError for an empty list or a list with an
\* entry blank after trimming; then no assignment is produced, no renderer
\* runs, no record is emitted and main exits with non-zero status.
C6_InvalidListIsRejected ==
    /\ (InvalidList(tos) /\ pc \in { "seek", "loop", "returned", "render", "rendered",
                                     "raised", "except" }) =>
            /\ pc \in { "raised", "except" }
            /\ exc # ""
    /\ exc # "" =>
            /\ rotation = <<>>
            /\ ~txt_file.written
            /\ ~csv_file.written
            /\ TerminalTriples = <<>>
            /\ ~Printed("Done.")
            /\ pc \in { "raised", "except", "exit" }
            /\ (pc = "exit" => exit_status # 0)
            /\ (pc = "raised" => entry = "generate_rotation")

C6_Witness ==
    /\ pc = "exit"
    /\ entry = "main"
    /\ exc # ""
    /\ tos # <<>>
    /\ \E i \in 1..Len(tos) : tos[i] # <<>> /\ IsBlank(tos[i])

\* C7 (as claimed): every run of main ends either with non-zero status and a
\* diagnostic, or with zero status and "Done." after a renderer completed; an
\* empty participant list never ends with zero status.
C7_ExitStatus ==
    entry = "main" /\ pc = "exit" =>
        /\ \/ exit_status # 0 /\ stdout # <<>> /\ ~Printed("Done.")
           \/ /\ exit_status = 0
              /\ Printed("Done.")
              /\ \/ csv_file.written
                 \/ txt_file.written
                 \/ Printed("Printing to terminal...")
        /\ (tos = <<>> => exit_status # 0)

\* C8: the three renderers produce the same ordered (date, slot 1, slot 2)
\* triples for the same schedule; the CSV output only adds its header row.
C8_RenderersAgree ==
    Returned =>
        LET t == TriplesOfLines(print_to_terminal(rotation))
            f == TriplesOfLines(print_to_file(rotation))
            c == TriplesOfRows(export_to_csv(rotation))
        IN  /\ t = f
            /\ f = c
            /\ Len(c) = Len(rotation)
            /\ Len(export_to_csv(rotation)) = Len(rotation) + 1
            /\ (pc = "rendered" => RenderedTriples = c)

C8_Witness ==
    /\ pc = "rendered"
    /\ txt_file.written
    /\ Len(FileTriples) = 3
    /\ FileTriples[1][1] # FileTriples[2][1]

\* C9 (as claimed): with exactly one participant every assignment names it,
\* slot 2 of the first record is "N/A" and slot 2 of every later record is
\* that participant.
C9_SingleParticipant ==
    pc = "rendered" /\ Len(tos) = 1 /\ Len(rotation) >= 1 =>
        LET T == RenderedTriples
        IN  /\ \A i \in 1..Len(T) : T[i][2] = strip(tos[1])
            /\ T[1][3] = NA
            /\ \A i \in 2..Len(T) : T[i][3] = strip(tos[1])

\* C10 (as claimed): --csv writes TO_Rotation.csv, -f writes TO_Rotation.txt,
\* neither prints to the terminal, and both flags together write both files.
C10_BothFlagsWriteBothFiles ==
    pc = "rendered" =>
        /\ (args.csv => csv_file.written)
        /\ (args.file => txt_file.written)
        /\ (~args.csv /\ ~args.file => Printed("Printing to terminal..."))

\* C10 (amended): exactly one sink is rendered per run: TO_Rotation.csv when
\* --csv is given (with or without -f), TO_Rotation.txt when -f is given
\* without --csv, the terminal when neither is given.
C10_OneSinkCsvFirst ==
    pc = "rendered" =>
        /\ csv_file.written <=> args.csv
        /\ txt_file.written <=> (args.file /\ ~args.csv)
        /\ Printed("Printing to terminal...") <=> (~args.csv /\ ~args.file)
        /\ (csv_file.written => CsvTriples = TriplesOfRows(export_to_csv(rotation)))
        /\ (txt_file.written => txt_file.content = print_to_file(rotation))
        /\ Len(RenderedTriples) = Len(rotation)

C10_Witness ==
    /\ pc = "rendered"
    /\ args.csv
    /\ args.file
    /\ csv_file.written
    /\ ~txt_file.written
    /\ Len(rotation) >= 1

====
